---- MODULE Spec2Model ----
(***************************************************************************)
(* Model of the mibpf VM execution manager (mibpf-server/src/vm/           *)
(* vm_thread.rs): one manager thread that owns free_workers, four worker   *)
(* threads running vm_main_thread, and requester threads that post         *)
(* VMExecutionRequestMsg values to the manager's mailbox.                  *)
(*                                                                         *)
(* IPC follows RIOT: every thread has one mailbox that keeps send order;   *)
(* try_send fails when the receiver's queue has no room; the blocking      *)
(* msg_send to a thread without a queue completes when that thread is in   *)
(* msg_receive.                                                            *)
(*                                                                         *)
(* Further parts: the execution pipeline of a VM (vm/vm.rs), the JIT       *)
(* back-end with its slot arena and copy buffer (vm/rbpf_jit.rs), and the  *)
(* relocation resolver (bytecode-patching/src/relocation_resolution.rs),   *)
(* each with a specification of its own: SpecRun, SpecJit, SpecVerify,     *)
(* SpecReloc; the VM selector (SpecSelect), the shell command (shell/      *)
(* bpf_command.rs, SpecShell), the manager and its workers as threads      *)
(* that each keep running (SpecThreads), and the way of a request from the *)
(* shell to the VM a worker constructs (SpecSubmit).                       *)
(***************************************************************************)
EXTENDS Integers, Sequences, FiniteSets, TLC

VARIABLES
    free_workers,     \* Vec<i16> of start(): pids of the workers not handed a request
    mailbox,          \* the manager thread's message queue (requests and notifications)
    mgr,              \* position of the manager: in receive(), or blocked in msg_send
    pc,               \* position of each worker in vm_main_thread's loop
    wreq,             \* per worker: its read of the request behind the IPC message
    result,           \* per worker: `result`, the value vm.execute wrote (0 before)
    errlog,           \* the error! lines logged so far (as a set)
    requester_inbox,  \* messages the manager or a worker sent back to a requester
    sent,             \* number of requests accepted by the manager's queue so far
    stray,            \* number of messages posted by threads outside this module
    rejected,         \* history: ids of the requests that found no free worker
    outstanding,      \* history: per pid, dispatches minus processed completions
    recency,          \* history: free pids, least recently freed first
    run,              \* per worker: the methods called on its VM, and its program's progress
    be,               \* per JIT back-end thread: its RbpfJIT instance and position
    jit_slots,        \* the JIT-slot arena (jit_prog_storage)
    copy_buffer,      \* holder of the PROGRAM_COPY_BUFFER mutex, 0 when unlocked
    jit_runs,         \* number of VM runs the JIT threads have started
    fn                \* one call of a function of the program: input and output

vars == <<free_workers, mailbox, mgr, pc, wreq, result, errlog, requester_inbox,
          sent, stray, rejected, outstanding, recency,
         run, be, jit_slots, copy_buffer, jit_runs, fn>>

\* The variables of the JIT back-ends and of the single function calls.
aux == <<be, jit_slots, copy_buffer, jit_runs, fn>>
\* The variables of the manager and its workers.
pool == <<free_workers, mailbox, mgr, pc, wreq, result, errlog, requester_inbox,
          sent, stray, rejected, outstanding, recency, run>>

(***************************************************************************)
(* Program constants.                                                      *)
(***************************************************************************)
NumWorkers == 4
VM_EXEC_REQUEST == 23
VM_COMPLETE_NOTIFICATION == 24

(***************************************************************************)
(* Bounds of the model.                                                    *)
(***************************************************************************)
\* Capacity of the manager's message queue.
QueueSize == 3
\* Requests the requesters post in one run.
MaxRequests == 5
\* Messages posted to the manager by threads outside this module (SpecEnv).
MaxStray == 1
\* Threads that run a JIT back-end, and VM runs they start in total.
NumBackEnds == 2
MaxRuns == 3
\* Slots of the JIT-slot arena.
NumSlots == 2

Workers == 0 .. (NumWorkers - 1)
\* Kernel pids are handed out in spawn order: worker_0 .. worker_3.
Pid(w) == w + 1
WorkerPids == {Pid(w) : w \in Workers}
\* A pid that names no worker thread.
UnknownPid == NumWorkers + 1

\* VMExecutionRequestMsg: four byte fields.
RequestMsg(l, s, hs, hi) ==
    [binary_layout |-> l, suit_slot |-> s, helper_set |-> hs, helper_indices |-> hi]
\* The requests the requesters choose from.
RequestMsgs == {RequestMsg(3, 0, 0, 0), RequestMsg(0, 1, 1, 0)}
NoMsg == RequestMsg(0, 0, 0, 0)

\* One entry of a thread's message queue. id is a history tag, not program data.
Request(id, m) ==
    [type |-> VM_EXEC_REQUEST, id |-> id, body |-> m, worker_pid |-> 0]
Notification(p) ==
    [type |-> VM_COMPLETE_NOTIFICATION, id |-> 0, body |-> NoMsg, worker_pid |-> p]
Unknown == [type |-> 0, id |-> 0, body |-> NoMsg, worker_pid |-> 0]

Range(s) == {s[i] : i \in 1 .. Len(s)}
Remove(s, p) == SelectSeq(s, LAMBDA x : x # p)
(***************************************************************************)
(* Pure pieces of the handlers.                                            *)
(***************************************************************************)
\* msg_try_send: succeeds iff the receiver's queue has room.
TrySendOk(q) == Len(q) < QueueSize

\* Mutant: the manager takes the newest message first.
DequeueNewest(q) == [msg |-> q[Len(q)], rest |-> SubSeq(q, 1, Len(q) - 1)]
\* message_semantics.receive(): the oldest message of the queue.
Dequeue(q) == [msg |-> Head(q), rest |-> Tail(q)]

\* Mutant: the pid is read but left in the vector.
PopKeep(fw) == [pid |-> fw[Len(fw)], rest |-> fw]
\* free_workers.pop().unwrap()
Pop(fw) == [pid |-> fw[Len(fw)], rest |-> SubSeq(fw, 1, Len(fw) - 1)]

\* Mutant: the freed pid is inserted at the front.
PushFront(fw, p) == <<p>> \o fw
\* Mutant: the notification is consumed and the pid is not put back.
PushDrop(fw, p) == fw
\* Mutant: the completed pid is pushed once for the notification and once
\* more.
PushTwice(fw, p) == Append(Append(fw, p), p)
\* free_workers.push(notification.worker_pid)
Push(fw, p) == Append(fw, p)

\* A read of the four bytes behind msg.content.ptr of a message that encoded
\* the request m.  intact tells whether the four bytes read are those of m;
\* a read that is not intact stands for every other value of the four bytes:
\* which one it is depends on what ran on the sender's stack since, and the
\* record does not say.
DecodedRead(m, intact) == [request |-> m, intact |-> intact]
\* No request decoded.
NoRead == DecodedRead(NoMsg, TRUE)
\* What a worker may read through msg.content.ptr: the pointer was taken to
\* the by-value `self` of into(), whose frame is dead when the worker reads
\* it, so the four bytes are the request or anything else.
Decoded(m) == {DecodedRead(m, intact) : intact \in BOOLEAN}

(***************************************************************************)
(* The execution pipeline of a VM (mibpf-server/src/vm/vm.rs).  A step     *)
(* returns Ok(value) or Err(message); full_run and full_run_on_coap_pkt    *)
(* chain the four steps with the ? operator.                               *)
(***************************************************************************)
Ok(v) == [ok |-> TRUE, val |-> v]
Err(e) == [ok |-> FALSE, val |-> e]

\* The trait methods in the order full_run (entry "full_run") and
\* full_run_on_coap_pkt (entry "full_run_on_coap_pkt") call them.
Steps(entry) ==
    <<"resolve_relocations", "initialise_vm", "verify",
      IF entry = "full_run" THEN "execute" ELSE "execute_on_coap_pkt">>

\* Mutant: an error of a step does not end the run.
NextStepIgnoresErr(k, r) == IF k < Len(Steps("full_run")) THEN k + 1 ELSE 0
\* What follows step k once it returned r: the next step, or 0 when the
\* function returns r (`?` on an Err, or the value of the last expression).
NextStep(k, r) == IF r.ok /\ k < Len(Steps("full_run")) THEN k + 1 ELSE 0

RECURSIVE RunFrom(_, _, _, _)
RunFrom(entry, o, k, calls) ==
    LET c == Append(calls, Steps(entry)[k]) IN
    IF NextStep(k, o[k]) = 0
    THEN [calls |-> c, ret |-> o[k]]
    ELSE RunFrom(entry, o, NextStep(k, o[k]), c)

\* full_run / full_run_on_coap_pkt on a VM whose step k answers o[k]: the
\* steps invoked, in order, and the value returned.
FullRun(entry, o) == RunFrom(entry, o, 1, <<>>)

\* The answers a VM's steps can give.
ErrMsgs == {"E1", "E2"}
RetVals == {0, 42}
StepResults == {Ok(0)} \cup {Err(e) : e \in ErrMsgs}
StepAnswers ==
    {o \in [1 .. 4 -> StepResults \cup {Ok(v) : v \in RetVals}] :
        \A k \in 1 .. 3 : o[k] \in StepResults}

\* A worker that has built no VM: the methods called on the VM, and the
\* struct the VM is.
NoRun == [calls |-> <<>>, vm |-> "none"]

\* The bytes that name a layout.
LayoutBytes == 0 .. 4
\* BinaryFileLayout::from(u8), on the bytes that name a layout.
LayoutFrom(byte) ==
    CASE byte = 0 -> "OnlyTextSection"
      [] byte = 1 -> "FemtoContainersHeader"
      [] byte = 2 -> "ExtendedHeader"
      [] byte = 3 -> "RawObjectFile"
      [] byte = 4 -> "FunctionRelocationMetadata"
\* VMExecutionRequest::from(&VMExecutionRequestMsg)
RequestFrom(request) ==
    [suit_slot |-> request.suit_slot, vm_target |-> "Rbpf",
     binary_layout |-> LayoutFrom(request.binary_layout),
     helper_set |-> request.helper_set,
     helper_indices |-> request.helper_indices]
\* The match on execution_request.vm_target in vm_main_thread.
WorkerVm(execution_request) ==
    IF execution_request.vm_target = "Rbpf"
    THEN Ok("RbpfVm")
    ELSE Ok("FemtoContainerVm")
\* The VM a worker builds for its read r of a request.  Of the request
\* rebuilt from the read only vm_target is looked at, and from() sets it
\* without looking at a byte of the message, so a read that is not intact
\* builds the same VM.
BuiltVm(r) == WorkerVm(RequestFrom(r.request)).val

(***************************************************************************)
(* State of the JIT back-ends (mibpf-server/src/vm/rbpf_jit.rs) and of the *)
(* JIT-slot arena they share.                                              *)
(***************************************************************************)
BackEnds == 1 .. NumBackEnds
Slots == 0 .. (NumSlots - 1)

\* A slot of the arena: held from acquire to release; guard is the thread
\* whose scoped guard gives it the slot's bytes (0: none); code names the
\* back-end whose program was last compiled into the slot (0: none).
FreeSlot == [held |-> FALSE, guard |-> 0, code |-> 0]

\* A thread that runs no VM.  Of an instance the record keeps layout,
\* recompile and jit_prog_slot as RbpfJIT::new set them; owns tells that
\* this instance acquired its slot and has not called free_storage_slot
\* since.
IdleBackEnd ==
    [pc |-> "idle", step |-> 0, layout |-> "RawObjectFile",
     recompile |-> FALSE, slot |-> 0, owns |-> FALSE, ret |-> Ok(0)]

\* No function call in progress.
NoCall == [op |-> "none", in |-> <<>>, out |-> <<>>, done |-> FALSE]

\* The manager and its workers before the first request.
PoolInit ==
    /\ free_workers = [i \in 1 .. NumWorkers |-> Pid(i - 1)]
    /\ mailbox = <<>>
    /\ mgr = [pc |-> "receive", pid |-> 0, msg |-> Unknown]
    /\ pc = [w \in Workers |-> "receive"]
    /\ wreq = [w \in Workers |-> NoRead]
    /\ result = [w \in Workers |-> 0]
    /\ errlog = {}
    /\ requester_inbox = {}
    /\ sent = 0
    /\ stray = 0
    /\ rejected = {}
    /\ outstanding = [p \in WorkerPids \cup {UnknownPid} |-> 0]
    /\ recency = [i \in 1 .. NumWorkers |-> Pid(i - 1)]
    /\ run = [w \in Workers |-> NoRun]

\* No JIT back-end runs and no function is being called.
AuxInit ==
    /\ be = [b \in BackEnds |-> IdleBackEnd]
    /\ jit_slots = [s \in Slots |-> FreeSlot]
    /\ copy_buffer = 0
    /\ jit_runs = 0
    /\ fn = NoCall

Init == PoolInit /\ AuxInit

(***************************************************************************)
(* Requester: execution_send.lock().try_send(VMExecutionRequestMsg {..})   *)
(***************************************************************************)
RequesterSend ==
    /\ sent < MaxRequests
    /\ \E m \in RequestMsgs :
        IF TrySendOk(mailbox)
        THEN /\ mailbox' = Append(mailbox, Request(sent + 1, m))
             /\ sent' = sent + 1
        ELSE UNCHANGED <<mailbox, sent>>
    /\ UNCHANGED aux
    /\ UNCHANGED <<run, free_workers, mgr, pc, wreq, result, errlog, requester_inbox,
                   stray, rejected, outstanding, recency>>

(***************************************************************************)
(* Manager: one iteration of the loop of VMExecutionManager::start.        *)
(***************************************************************************)
\* A request arrives and no worker is free: log and return.
ManagerReject ==
    /\ mgr.pc = "receive"
    /\ mailbox # <<>>
    /\ LET d == Dequeue(mailbox) IN
        /\ d.msg.type = VM_EXEC_REQUEST
        /\ free_workers = <<>>
        /\ mailbox' = d.rest
        /\ errlog' = errlog \cup {"No free workers to execute the request."}
        /\ rejected' = rejected \cup {d.msg.id}
    /\ UNCHANGED aux
    /\ UNCHANGED <<run, free_workers, mgr, pc, wreq, result, requester_inbox, sent,
                   stray, outstanding, recency>>

\* A request arrives and a worker is free: pop its pid and msg_send to it.
\* msg_send to a pid that names no thread returns at once with an error;
\* to a worker it blocks until the worker is in msg_receive.
ManagerDispatch ==
    /\ mgr.pc = "receive"
    /\ mailbox # <<>>
    /\ LET d == Dequeue(mailbox)
           p == Pop(free_workers) IN
        /\ d.msg.type = VM_EXEC_REQUEST
        /\ free_workers # <<>>
        /\ mailbox' = d.rest
        /\ free_workers' = p.rest
        /\ recency' = Remove(recency, p.pid)
        /\ outstanding' = [outstanding EXCEPT ![p.pid] = @ + 1]
        /\ IF p.pid \in WorkerPids
           THEN mgr' = [pc |-> "send", pid |-> p.pid, msg |-> d.msg]
           ELSE mgr' = mgr
    /\ UNCHANGED aux
    /\ UNCHANGED <<run, pc, wreq, result, errlog, requester_inbox, sent, stray, rejected>>

\* A completion notification arrives: push the pid it names.
ManagerComplete ==
    /\ mgr.pc = "receive"
    /\ mailbox # <<>>
    /\ LET d == Dequeue(mailbox) IN
        /\ d.msg.type = VM_COMPLETE_NOTIFICATION
        /\ mailbox' = d.rest
        /\ free_workers' = Push(free_workers, d.msg.worker_pid)
        /\ recency' = Append(Remove(recency, d.msg.worker_pid), d.msg.worker_pid)
        /\ outstanding' = [outstanding EXCEPT ![d.msg.worker_pid] = @ - 1]
    /\ UNCHANGED aux
    /\ UNCHANGED <<run, mgr, pc, wreq, result, errlog, requester_inbox, sent, stray,
                   rejected>>

\* A message of neither type: "Failed to decode message."
ManagerUndecodable ==
    /\ mgr.pc = "receive"
    /\ mailbox # <<>>
    /\ LET d == Dequeue(mailbox) IN
        /\ d.msg.type \notin {VM_EXEC_REQUEST, VM_COMPLETE_NOTIFICATION}
        /\ mailbox' = d.rest
        /\ errlog' = errlog \cup {"Failed to decode message."}
    /\ UNCHANGED aux
    /\ UNCHANGED <<run, free_workers, mgr, pc, wreq, result, requester_inbox, sent,
                   stray, rejected, outstanding, recency>>

(***************************************************************************)
(* Worker w: one iteration of the loop of vm_main_thread.                  *)
(***************************************************************************)
\* msg_receive returns the message the manager is blocked sending; the worker
\* reads the request through the pointer the message carries.
WorkerReceive(w) ==
    /\ pc[w] = "receive"
    /\ mgr.pc = "send"
    /\ mgr.pid = Pid(w)
    /\ \E r \in Decoded(mgr.msg.body) :
        wreq' = [wreq EXCEPT ![w] = r]
    /\ pc' = [pc EXCEPT ![w] = "load"]
    /\ result' = [result EXCEPT ![w] = 0]
    /\ mgr' = [pc |-> "receive", pid |-> 0, msg |-> Unknown]
    /\ UNCHANGED aux
    /\ UNCHANGED <<run, free_workers, mailbox, errlog, requester_inbox, sent, stray,
                   rejected, outstanding, recency>>

\* Mutant: the completion is sent before the program is executed.
WorkerLoadNotifies(w) ==
    /\ pc[w] = "load"
    /\ pc' = [pc EXCEPT ![w] = "execute"]
    /\ run' = [run EXCEPT ![w].vm = BuiltVm(wreq[w])]
    /\ wreq' = [wreq EXCEPT ![w] = NoRead]
    /\ TrySendOk(mailbox)
    /\ mailbox' = Append(mailbox, Notification(Pid(w)))
    /\ UNCHANGED aux
    /\ UNCHANGED <<free_workers, mgr, result, errlog,
                   requester_inbox, sent, stray, rejected, outstanding, recency>>

\* suit_storage::load_program and the construction of the VM the rebuilt
\* request names, which consumes the decoded request.
WorkerLoad(w) ==
    /\ pc[w] = "load"
    /\ pc' = [pc EXCEPT ![w] = "execute"]
    /\ run' = [run EXCEPT ![w].vm = BuiltVm(wreq[w])]
    /\ wreq' = [wreq EXCEPT ![w] = NoRead]
    /\ UNCHANGED aux
    /\ UNCHANGED <<free_workers, mailbox, mgr, result, errlog,
                   requester_inbox, sent, stray, rejected, outstanding, recency>>

\* let mut result: i64 = 0; vm.execute(&program, &mut result) returns: the
\* one call made on the VM; the value it left in result is printed, and the
\* worker has no branch on it.
WorkerExecute(w) ==
    /\ pc[w] = "execute"
    /\ run' = [run EXCEPT ![w].calls = <<"execute">>]
    /\ \E v \in RetVals : result' = [result EXCEPT ![w] = v]
    /\ pc' = [pc EXCEPT ![w] = "notify"]
    /\ UNCHANGED aux
    /\ UNCHANGED <<free_workers, mailbox, mgr, wreq, errlog, requester_inbox,
                   sent, stray, rejected, outstanding, recency>>

\* Mutant: the worker puts its own pid back instead of notifying the manager.
WorkerNotifyPushesSelf(w) ==
    /\ pc[w] = "notify"
    /\ pc' = [pc EXCEPT ![w] = "receive"]
    /\ result' = [result EXCEPT ![w] = 0]
    /\ free_workers' = Append(free_workers, Pid(w))
    /\ run' = [run EXCEPT ![w] = NoRun]
    /\ UNCHANGED aux
    /\ UNCHANGED <<mailbox, errlog, mgr, wreq, requester_inbox, sent, stray,
                   rejected, outstanding, recency>>

\* send_port.lock().try_send(VMExecutionCompleteMsg { worker_pid: get_pid() }),
\* then back to the head of the loop whether or not the send succeeded.
WorkerNotify(w) ==
    /\ pc[w] = "notify"
    /\ pc' = [pc EXCEPT ![w] = "receive"]
    /\ result' = [result EXCEPT ![w] = 0]
    /\ IF TrySendOk(mailbox)
       THEN /\ mailbox' = Append(mailbox, Notification(Pid(w)))
            /\ errlog' = errlog
       ELSE /\ mailbox' = mailbox
            /\ errlog' = errlog \cup {"Failed to send notification message."}
    /\ run' = [run EXCEPT ![w] = NoRun]
    /\ UNCHANGED aux
    /\ UNCHANGED <<free_workers, mgr, wreq, requester_inbox, sent, stray,
                   rejected, outstanding, recency>>

WorkerStep(w) ==
    \/ WorkerReceive(w)
    \/ WorkerLoad(w)
    \/ WorkerExecute(w)
    \/ WorkerNotify(w)

Next ==
    \/ RequesterSend
    \/ ManagerReject
    \/ ManagerDispatch
    \/ ManagerComplete
    \/ \E w \in Workers : WorkerReceive(w)
    \/ \E w \in Workers : WorkerLoad(w)
    \/ \E w \in Workers : WorkerExecute(w)
    \/ \E w \in Workers : WorkerNotify(w)

\* The manager, its four workers and the requesters, with no other sender.
Spec == Init /\ [][Next]_vars

(***************************************************************************)
(* The same threads running in parallel: a thread whose next step stays    *)
(* possible takes it.  The return of vm.execute is the exception: nothing  *)
(* bounds the time a program runs.                                         *)
(***************************************************************************)
THREAD_PRIORITY_MAIN == 7
\* Mutant: every worker is spawned at the priority of worker 3.
PriorityOfLast(w) == THREAD_PRIORITY_MAIN - 1
\* spawn_thread!(ts, "Worker w", .., pri - 4 + w)
Priority(w) == THREAD_PRIORITY_MAIN - NumWorkers + w

FairThreads ==
    /\ WF_vars(ManagerReject \/ ManagerDispatch \/ ManagerComplete)
    /\ \A w \in Workers :
        /\ WF_vars(WorkerReceive(w))
        /\ WF_vars(WorkerLoad(w))
        /\ WF_vars(WorkerNotify(w))

SpecThreads == Init /\ [][Next]_vars /\ FairThreads

(***************************************************************************)
(* Other threads.  The manager's mailbox is addressed by pid alone, so any *)
(* thread can post a message of any type to it; the loop of start() has a  *)
(* branch for the messages it cannot decode.                               *)
(***************************************************************************)
EnvNotification ==
    /\ stray < MaxStray
    /\ TrySendOk(mailbox)
    /\ \E p \in WorkerPids \cup {UnknownPid} :
        mailbox' = Append(mailbox, Notification(p))
    /\ stray' = stray + 1
    /\ UNCHANGED aux
    /\ UNCHANGED <<run, free_workers, mgr, pc, wreq, result, errlog, requester_inbox,
                   sent, rejected, outstanding, recency>>

EnvUnknown ==
    /\ stray < MaxStray
    /\ TrySendOk(mailbox)
    /\ mailbox' = Append(mailbox, Unknown)
    /\ stray' = stray + 1
    /\ UNCHANGED aux
    /\ UNCHANGED <<run, free_workers, mgr, pc, wreq, result, errlog, requester_inbox,
                   sent, rejected, outstanding, recency>>

NextEnv ==
    \/ RequesterSend
    \/ ManagerReject
    \/ ManagerDispatch
    \/ ManagerComplete
    \/ ManagerUndecodable
    \/ \E w \in Workers : WorkerReceive(w)
    \/ \E w \in Workers : WorkerLoad(w)
    \/ \E w \in Workers : WorkerExecute(w)
    \/ \E w \in Workers : WorkerNotify(w)
    \/ EnvNotification
    \/ EnvUnknown

\* The same system with other threads posting to the manager's mailbox.
SpecEnv == Init /\ [][NextEnv]_vars

(***************************************************************************)
(* JIT-slot arena (jit_prog_storage).  acquire_storage_slot hands out a    *)
(* scoped guard over a slot and fails if the slot is already held;         *)
(* get_program_from_slot fails if the slot is free; free_storage_slot      *)
(* releases the slot.  The guard gives access to the slot's bytes for its  *)
(* scope; the slot stays owned until free_storage_slot.                    *)
(***************************************************************************)
AcquireOk(slots, s) == ~slots[s].held /\ slots[s].guard = 0
AcquireStorageSlot(slots, s, b) ==
    [slots EXCEPT ![s] = [held |-> TRUE, guard |-> b, code |-> 0]]
DropGuard(slots, s) == [slots EXCEPT ![s].guard = 0]
GetProgramOk(slots, s) == slots[s].held
FreeStorageSlot(slots, s) == [slots EXCEPT ![s].held = FALSE, ![s].code = 0]

(***************************************************************************)
(* RbpfJIT::verify (rbpf_jit.rs).  A program is described by what the rbpf *)
(* library finds in it: whether EbpfVmMbuff::new accepts it, whether       *)
(* verify_loaded_program accepts it, and the helper ids its call           *)
(* instructions name.                                                      *)
(***************************************************************************)
\* .map(|id| *id as u32): the zero extension of an 8-bit helper id keeps its
\* value.
HelperIdxs(allowed) == {id : id \in allowed}

\* rbpf's verify_helper_calls: every helper the program calls is one of idxs.
VerifyHelperCalls(program, idxs) == program.calls \subseteq idxs

\* Mutant: the helper calls are checked in no verification mode.
VerifyNeverChecksHelpers(self) ==
    IF ~self.program.loads THEN Err("Error: load")
    ELSE IF ~self.program.wellformed THEN Err("Error: verify")
    ELSE Ok(0)
Verify(self) ==
    IF ~self.program.loads THEN Err("Error: load")
    ELSE IF ~self.program.wellformed THEN Err("Error: verify")
    ELSE IF /\ self.helper_access_verification = "PreFlight"
            /\ ~VerifyHelperCalls(self.program, HelperIdxs(self.allowed_helpers))
         THEN Err("Error when checking helper function access")
    ELSE Ok(0)

(***************************************************************************)
(* A thread that builds RbpfJIT instances and runs full_run or             *)
(* full_run_on_coap_pkt on them (rbpf_jit.rs, vm.rs).  A panic (unwrap on  *)
(* a failure, todo!()) ends the thread; whether the guards it holds are    *)
(* dropped depends on the panic strategy of the build.                     *)
(***************************************************************************)
Layouts == {"RawObjectFile", "OnlyTextSection"}
Entries == {"full_run", "full_run_on_coap_pkt"}

\* The verification inputs of the JIT threads: a program that calls helper 1,
\* with the helper allowed or not, checked pre-flight.
JitVerifyCases ==
    {[program |-> [loads |-> TRUE, wellformed |-> TRUE, calls |-> {1}],
      allowed_helpers |-> a, helper_access_verification |-> "PreFlight"] :
        a \in {{1}, {}}}

\* The back-end after step k of its run, entered through entry, answered r.
Goto(self, entry, k, r) ==
    IF NextStep(k, r) = 0
    THEN [IdleBackEnd EXCEPT !.pc = "returned", !.ret = r]
    ELSE [self EXCEPT !.pc = Steps(entry)[NextStep(k, r)],
                      !.step = NextStep(k, r)]


\* The instance is dropped when its run returns; a thread that panicked runs
\* nothing any more.
Panicked(self) == [IdleBackEnd EXCEPT !.pc = "panicked"]

\* RbpfJIT::new for a request, and the call of full_run[_on_coap_pkt].
JitStart(b) ==
    /\ be[b].pc \in {"idle", "returned"}
    /\ jit_runs < MaxRuns
    /\ jit_runs' = jit_runs + 1
    /\ \E l \in Layouts, rc \in BOOLEAN, s \in Slots :
        be' = [be EXCEPT ![b] =
                 [pc |-> "resolve_relocations", step |-> 1, layout |-> l,
                  recompile |-> rc, slot |-> s, owns |-> FALSE,
                  ret |-> Ok(0)]]
    /\ UNCHANGED <<jit_slots, copy_buffer, fn>>
    /\ UNCHANGED pool

\* resolve_relocations of the back-end answers.
JitResolve(b) ==
    /\ be[b].pc = "resolve_relocations"
    /\ \E r \in {Ok(0), Err("E1")} :
        be' = [be EXCEPT ![b] = Goto(be[b], "full_run", 1, r)]
    /\ UNCHANGED <<jit_slots, copy_buffer, jit_runs, fn>>
    /\ UNCHANGED pool

\* initialize_vm up to acquire_storage_slot(jit_slot).unwrap().
JitInitialize(b) ==
    /\ be[b].pc = "initialise_vm"
    /\ IF ~be[b].recompile
       THEN /\ be' = [be EXCEPT ![b] =
                        Goto(be[b], "full_run", 2, Ok(0))]
            /\ jit_slots' = jit_slots
       ELSE IF be[b].layout # "RawObjectFile"
       THEN /\ be' = [be EXCEPT ![b] = Goto(be[b], "full_run", 2,
                  Err("The JIT only supports raw object file binary layout"))]
            /\ jit_slots' = jit_slots
       ELSE IF AcquireOk(jit_slots, be[b].slot)
       THEN /\ jit_slots' = AcquireStorageSlot(jit_slots, be[b].slot, b)
            /\ be' = [be EXCEPT ![b] =
                  [be[b] EXCEPT !.pc = "acquired", !.owns = TRUE]]
       ELSE /\ be' = [be EXCEPT ![b] = Panicked(be[b])]
            /\ jit_slots' = jit_slots
    /\ UNCHANGED <<copy_buffer, jit_runs, fn>>
    /\ UNCHANGED pool

\* PROGRAM_COPY_BUFFER.lock(): blocks until the mutex is free.
JitLockBuffer(b) ==
    /\ be[b].pc = "acquired"
    /\ copy_buffer = 0
    /\ copy_buffer' = b
    /\ be' = [be EXCEPT ![b].pc = "compile"]
    /\ UNCHANGED <<jit_slots, jit_runs, fn>>
    /\ UNCHANGED pool

\* rbpf::JitMemory::new(..).unwrap(): compiles the program into the slot; the
\* guard of the copy buffer is a temporary of this statement.
JitCompile(b) ==
    /\ be[b].pc = "compile"
    /\ \/ /\ jit_slots' = [jit_slots EXCEPT ![be[b].slot].code = b]
          /\ copy_buffer' = 0
          /\ be' = [be EXCEPT ![b].pc = "compiled"]
       \/ /\ be' = [be EXCEPT ![b] = Panicked(be[b])]
          /\ \/ /\ copy_buffer' = 0
                /\ jit_slots' = DropGuard(jit_slots, be[b].slot)
             \/ UNCHANGED <<copy_buffer, jit_slots>>
    /\ UNCHANGED <<jit_runs, fn>>
    /\ UNCHANGED pool

\* slot_guard.1 = text_offset; Ok(()): slot_guard goes out of scope.
JitInitReturn(b) ==
    /\ be[b].pc = "compiled"
    /\ jit_slots' = DropGuard(jit_slots, be[b].slot)
    /\ be' = [be EXCEPT ![b] = Goto(be[b], "full_run", 2, Ok(0))]
    /\ UNCHANGED <<copy_buffer, jit_runs, fn>>
    /\ UNCHANGED pool

\* RbpfJIT::verify on the program and the helper list of the request; then
\* the last call of full_run or of full_run_on_coap_pkt, whichever is running.
JitVerify(b) ==
    /\ be[b].pc = "verify"
    /\ \E v \in JitVerifyCases, e \in Entries :
        be' = [be EXCEPT ![b] = Goto(be[b], e, 3, Verify(v))]
    /\ UNCHANGED <<jit_slots, copy_buffer, jit_runs, fn>>
    /\ UNCHANGED pool

\* execute: get_program_from_slot(self.jit_prog_slot).unwrap().
JitExecute(b) ==
    /\ be[b].pc = "execute"
    /\ IF GetProgramOk(jit_slots, be[b].slot)
       THEN be' = [be EXCEPT ![b].pc = "running"]
       ELSE be' = [be EXCEPT ![b] = Panicked(be[b])]
    /\ UNCHANGED <<jit_slots, copy_buffer, jit_runs, fn>>
    /\ UNCHANGED pool

\* execute: the jitted function returns; free_storage_slot; Ok(ret as u64).
JitRun(b) ==
    /\ be[b].pc = "running"
    /\ jit_slots' = FreeStorageSlot(jit_slots, be[b].slot)
    /\ \E v \in RetVals :
        be' = [be EXCEPT ![b] = Goto(be[b], "full_run", 4, Ok(v))]
    /\ UNCHANGED <<copy_buffer, jit_runs, fn>>
    /\ UNCHANGED pool

\* execute_on_coap_pkt: todo!().
JitExecuteOnCoapPkt(b) ==
    /\ be[b].pc = "execute_on_coap_pkt"
    /\ be' = [be EXCEPT ![b] = Panicked(be[b])]
    /\ UNCHANGED <<jit_slots, copy_buffer, jit_runs, fn>>
    /\ UNCHANGED pool

NextJit ==
    \/ \E b \in BackEnds : JitStart(b)
    \/ \E b \in BackEnds : JitResolve(b)
    \/ \E b \in BackEnds : JitInitialize(b)
    \/ \E b \in BackEnds : JitLockBuffer(b)
    \/ \E b \in BackEnds : JitCompile(b)
    \/ \E b \in BackEnds : JitInitReturn(b)
    \/ \E b \in BackEnds : JitVerify(b)
    \/ \E b \in BackEnds : JitExecute(b)
    \/ \E b \in BackEnds : JitRun(b)
    \/ \E b \in BackEnds : JitExecuteOnCoapPkt(b)

\* The threads that run JIT back-ends, sharing the arena and the copy buffer.
SpecJit == Init /\ [][NextJit]_vars

(***************************************************************************)
(* One call of full_run or full_run_on_coap_pkt on a VM, for every way the *)
(* VM's four steps can answer.                                             *)
(***************************************************************************)
InitRun ==
    /\ PoolInit
    /\ be = [b \in BackEnds |-> IdleBackEnd]
    /\ jit_slots = [s \in Slots |-> FreeSlot]
    /\ copy_buffer = 0
    /\ jit_runs = 0
    /\ \E e \in Entries, o \in StepAnswers :
        fn = [op |-> e, in |-> o, out |-> <<>>, done |-> FALSE]

CallFullRun ==
    /\ fn.op \in Entries
    /\ ~fn.done
    /\ fn' = [fn EXCEPT !.out = FullRun(fn.op, fn.in), !.done = TRUE]
    /\ UNCHANGED <<be, jit_slots, copy_buffer, jit_runs>>
    /\ UNCHANGED pool

NextRun == CallFullRun

SpecRun == InitRun /\ [][NextRun]_vars

(***************************************************************************)
(* One call of RbpfJIT::verify, for every program, allowed-helper list and *)
(* verification mode of the bounded sets below.                            *)
(***************************************************************************)
HelperIds == {1, 2, 3, 9}
Programs ==
    [loads : BOOLEAN, wellformed : BOOLEAN, calls : SUBSET HelperIds]
VerificationModes == {"None", "PreFlight"}

InitVerify ==
    /\ PoolInit
    /\ be = [b \in BackEnds |-> IdleBackEnd]
    /\ jit_slots = [s \in Slots |-> FreeSlot]
    /\ copy_buffer = 0
    /\ jit_runs = 0
    /\ \E p \in Programs, a \in SUBSET HelperIds, m \in VerificationModes :
        fn = [op |-> "verify",
              in |-> [program |-> p, allowed_helpers |-> a,
                      helper_access_verification |-> m],
              out |-> <<>>, done |-> FALSE]

CallVerify ==
    /\ fn.op = "verify"
    /\ ~fn.done
    /\ fn' = [fn EXCEPT !.out = Verify(fn.in), !.done = TRUE]
    /\ UNCHANGED <<be, jit_slots, copy_buffer, jit_runs>>
    /\ UNCHANGED pool

NextVerify == CallVerify

SpecVerify == InitVerify /\ [][NextVerify]_vars

(***************************************************************************)
(* resolve_relocations (bytecode-patching/src/relocation_resolution.rs).   *)
(* Machine words are little-endian byte sequences, so that the 32-bit and  *)
(* 64-bit sums keep their width.  An ELF image is what goblin parses out   *)
(* of it (section headers, symbols, relocation records) together with its  *)
(* bytes from the start of the file to the end of the section that follows *)
(* .text.  Section header 1 is the one the resolver takes for .text.       *)
(***************************************************************************)
RECURSIVE ToLE(_, _)
\* The len low bytes of the number n, least significant first.
ToLE(n, len) ==
    IF len = 0 THEN <<>> ELSE <<n % 256>> \o ToLE(n \div 256, len - 1)

\* A narrower unsigned word as a word of len bytes (`as u64`).
ZeroExtend(w, len) == w \o [i \in 1 .. (len - Len(w)) |-> 0]
\* The low len bytes of a word (`as u32`).
Truncate(w, len) == SubSeq(w, 1, len)

RECURSIVE AddLE(_, _, _)
\* a + b + c on words of equal width: the sum in that width and the carry out.
AddLE(a, b, c) ==
    IF a = <<>> THEN [sum |-> <<>>, carry |-> c]
    ELSE LET t == Head(a) + Head(b) + c
             r == AddLE(Tail(a), Tail(b), t \div 256) IN
         [sum |-> <<t % 256>> \o r.sum, carry |-> r.carry]

\* The operators + and += on unsigned words: on overflow the build either
\* panics ("attempt to add with overflow", overflow checks on) or wraps.
Add(a, b, checks) ==
    IF AddLE(a, b, 0).carry = 1 /\ checks
    THEN [panic |-> TRUE, val |-> a]
    ELSE [panic |-> FALSE, val |-> AddLE(a, b, 0).sum]

LDDW_OPCODE == 24

\* Lddw::from(bytes): the fields of a 16-byte instruction pair.
LddwFrom(bytes) ==
    [head |-> SubSeq(bytes, 1, 4), immediate_l |-> SubSeq(bytes, 5, 8),
     tail |-> SubSeq(bytes, 9, 16)]
\* (&instr).into(): the 16 bytes of the pair.
LddwInto(instr) == instr.head \o instr.immediate_l \o instr.tail

\* binary.syms.get(i), binary.section_headers.get(i): indices start at 0.
Get(table, i) ==
    IF i + 1 \in DOMAIN table THEN <<table[i + 1]>> ELSE <<>>

\* get_section_reference_mut: the bytes of a section inside the program.
SectionBytes(section, bytes) ==
    SubSeq(bytes, section.sh_offset + 1, section.sh_offset + section.sh_size)

\* The copy lands one byte further.
WriteAtNext(s, at, new) ==
    [i \in DOMAIN s |->
        IF i > at + 1 /\ i <= at + 1 + Len(new) THEN new[i - at - 1] ELSE s[i]]

\* s with the bytes from position at (counted from 0) on replaced by new.
WriteAt(s, at, new) ==
    [i \in DOMAIN s |->
        IF i > at /\ i <= at + Len(new) THEN new[i - at] ELSE s[i]]

RECURSIVE Collect(_, _, _, _, _)
\* The first loop: the (offset, relocated address) pairs of the records whose
\* symbol exists.
Collect(relocs, elf, program_addr, checks, acc) ==
    IF relocs = <<>> THEN [panic |-> FALSE, val |-> acc]
    ELSE LET relocation == Head(relocs)
             symbol == Get(elf.syms, relocation.r_sym) IN
         IF symbol = <<>>
         THEN Collect(Tail(relocs), elf, program_addr, checks, acc)
         ELSE LET section == Get(elf.section_headers, symbol[1].st_shndx) IN
              IF section = <<>> THEN [panic |-> TRUE, val |-> acc]
              ELSE LET s1 == Add(ZeroExtend(program_addr, 8),
                                 ToLE(section[1].sh_offset, 8), checks)
                       s2 == Add(s1.val, ToLE(symbol[1].st_value, 8), checks) IN
                   IF s1.panic \/ s2.panic THEN [panic |-> TRUE, val |-> acc]
                   ELSE Collect(Tail(relocs), elf, program_addr, checks,
                                Append(acc, [offset |-> relocation.r_offset,
                                             value |-> Truncate(s2.val, 4)]))

RECURSIVE Patch(_, _, _)
\* The second loop, on the bytes of .text.
Patch(patches, text, checks) ==
    IF patches = <<>> THEN [panic |-> FALSE, val |-> text]
    ELSE LET offset == Head(patches).offset
             value == Head(patches).value IN
         IF offset >= Len(text) THEN Patch(Tail(patches), text, checks)
         ELSE IF text[offset + 1] # LDDW_OPCODE
         THEN Patch(Tail(patches), text, checks)
         ELSE IF offset + 16 > Len(text) THEN [panic |-> TRUE, val |-> text]
         ELSE LET instr == LddwFrom(SubSeq(text, offset + 1, offset + 16))
                  sum == Add(instr.immediate_l, value, checks) IN
              IF sum.panic THEN [panic |-> TRUE, val |-> text]
              ELSE Patch(Tail(patches),
                         WriteAt(text, offset,
                                 LddwInto([instr EXCEPT !.immediate_l = sum.val])),
                         checks)

\* An image without relocation records is refused.
ResolveRelocationsNeedsRecords(in) ==
    LET elf == in.elf
        unchanged == [status |-> "panic", err |-> "", bytes |-> elf.bytes] IN
    IF ~elf.parses \/ elf.relocs = <<>>
    THEN [unchanged EXCEPT !.status = "err",
                           !.err = "Failed to parse the ELF binary"]
    ELSE LET c == Collect(elf.relocs, elf, in.program_addr, in.checks, <<>>)
             text_section == Get(elf.section_headers, 1) IN
         IF c.panic THEN unchanged
         ELSE IF text_section = <<>>
         THEN [unchanged EXCEPT !.status = "err",
                                !.err = "Failed to find the .text section"]
         ELSE LET p == Patch(c.val, SectionBytes(text_section[1], elf.bytes),
                             in.checks) IN
              [status |-> IF p.panic THEN "panic" ELSE "ok", err |-> "",
               bytes |-> WriteAt(elf.bytes, text_section[1].sh_offset, p.val)]

\* resolve_relocations(program) for a program at address program_addr, on a
\* build with or without overflow checks: how the call ends and the bytes of
\* the program afterwards.
ResolveRelocations(in) ==
    LET elf == in.elf
        unchanged == [status |-> "panic", err |-> "", bytes |-> elf.bytes] IN
    IF ~elf.parses
    THEN [unchanged EXCEPT !.status = "err",
                           !.err = "Failed to parse the ELF binary"]
    ELSE LET c == Collect(elf.relocs, elf, in.program_addr, in.checks, <<>>)
             text_section == Get(elf.section_headers, 1) IN
         IF c.panic THEN unchanged
         ELSE IF text_section = <<>>
         THEN [unchanged EXCEPT !.status = "err",
                                !.err = "Failed to find the .text section"]
         ELSE LET p == Patch(c.val, SectionBytes(text_section[1], elf.bytes),
                             in.checks) IN
              [status |-> IF p.panic THEN "panic" ELSE "ok", err |-> "",
               bytes |-> WriteAt(elf.bytes, text_section[1].sh_offset, p.val)]

(***************************************************************************)
(* The images the resolver is called on.                                   *)
(***************************************************************************)
\* Instructions: the two halves of an LDDW whose lower immediate is imm, a
\* MOV and an EXIT.
LddwLow(imm) == <<LDDW_OPCODE, 1, 0, 0>> \o imm
LddwHigh == <<0, 0, 0, 0, 0, 0, 0, 0>>
Mov == <<183, 0, 0, 0, 42, 0, 0, 0>>
Exit == <<149, 0, 0, 0, 0, 0, 0, 0>>

\* Lower immediates before the resolution: 0, 0x10 and 0xffffffff.
Immediates == {ToLE(0, 4), ToLE(16, 4), <<255, 255, 255, 255>>}
\* Load addresses: 0, 0x20000000 and 0xffffff00.
Addresses == {ToLE(0, 4), <<0, 0, 0, 32>>, <<0, 255, 255, 255>>}

\* .text sections: an LDDW after two instructions; two LDDWs; an LDDW cut
\* short by the end of the section.
Texts ==
    {Mov \o Exit \o LddwLow(i) \o LddwHigh : i \in Immediates}
    \cup {LddwLow(i) \o LddwHigh \o LddwLow(ToLE(16, 4)) \o LddwHigh :
            i \in Immediates}
    \cup {Mov \o Exit \o LddwLow(ToLE(0, 4))}

\* The ELF header and program headers that precede .text.
HeaderLen == 8
Header == [i \in 1 .. HeaderLen |-> 127]

\* The bytes of the section that follows .text in the file; its first byte
\* equals the LDDW opcode.
Trailer == <<LDDW_OPCODE, 2, 0, 0, 7, 0, 0, 0>>

\* Section headers: null, .text, .data at file offset 0x200, .rodata at 0x300
\* and the section after .text.
SectionHeaders(text) ==
    <<[sh_offset |-> 0, sh_size |-> 0],
      [sh_offset |-> HeaderLen, sh_size |-> Len(text)],
      [sh_offset |-> 512, sh_size |-> 16],
      [sh_offset |-> 768, sh_size |-> 16],
      [sh_offset |-> HeaderLen + Len(text), sh_size |-> Len(Trailer)]>>

\* Symbols: two data symbols and one whose section index names no section.
Symbols ==
    <<[st_shndx |-> 2, st_value |-> 4],
      [st_shndx |-> 3, st_value |-> 16],
      [st_shndx |-> 9, st_value |-> 0]>>

\* Relocation records: at an LDDW, at the high half of one, outside .text;
\* against the symbols above and against a symbol that does not exist.
RelocationRecords ==
    [r_offset : {0, 16, 24, 40}, r_sym : {0, 1, 2, 5}]
RelocationLists ==
    {<<>>} \cup {<<r>> : r \in RelocationRecords}
    \cup {<<r1, r2>> : r1 \in {[r_offset |-> 0, r_sym |-> 0],
                               [r_offset |-> 16, r_sym |-> 0]},
                       r2 \in {[r_offset |-> 16, r_sym |-> 1],
                               [r_offset |-> 40, r_sym |-> 1]}}

\* Images with a .text section, parsable or not, and the parsable images
\* whose section header table holds the null header only: without a
\* relocation section these have no relocation records.
Elfs ==
    {[parses |-> ok, section_headers |-> SectionHeaders(t), syms |-> Symbols,
      relocs |-> rl, bytes |-> Header \o t \o Trailer] :
        ok \in BOOLEAN, t \in Texts, rl \in RelocationLists}
    \cup {[parses |-> TRUE, section_headers |-> SubSeq(SectionHeaders(<<>>), 1, 1),
           syms |-> Symbols, relocs |-> <<>>, bytes |-> Header \o tr] :
            tr \in {<<>>, Trailer}}

InitReloc ==
    /\ PoolInit
    /\ be = [b \in BackEnds |-> IdleBackEnd]
    /\ jit_slots = [s \in Slots |-> FreeSlot]
    /\ copy_buffer = 0
    /\ jit_runs = 0
    /\ \E e \in Elfs, a \in Addresses, c \in BOOLEAN :
        fn = [op |-> "resolve_relocations",
              in |-> [elf |-> e, program_addr |-> a, checks |-> c],
              out |-> <<>>, done |-> FALSE, again |-> <<>>]

CallResolveRelocations ==
    /\ fn.op = "resolve_relocations"
    /\ ~fn.done
    /\ fn' = [fn EXCEPT !.out = ResolveRelocations(fn.in), !.done = TRUE]
    /\ UNCHANGED <<be, jit_slots, copy_buffer, jit_runs>>
    /\ UNCHANGED pool

\* A second call on the program the first call returned success on, at the
\* same address (vm.rs:17 resolves the stored program on every run).
CallResolveRelocationsAgain ==
    /\ fn.op = "resolve_relocations"
    /\ fn.done
    /\ fn.out.status = "ok"
    /\ fn.again = <<>>
    /\ fn' = [fn EXCEPT !.again =
                <<ResolveRelocations([fn.in EXCEPT !.elf.bytes = fn.out.bytes])>>]
    /\ UNCHANGED <<be, jit_slots, copy_buffer, jit_runs>>
    /\ UNCHANGED pool

NextReloc == CallResolveRelocations \/ CallResolveRelocationsAgain

SpecReloc == InitReloc /\ [][NextReloc]_vars

(***************************************************************************)
(* The VM selector: initialize_vm (mibpf-server/src/vm/vm.rs) and the      *)
(* match of a worker (vm_thread.rs).  A selection is Ok(name of the VM     *)
(* struct that was boxed) or the error of the constructor.                 *)
(***************************************************************************)
TargetVMs == {"Rbpf", "FemtoContainer"}
BinaryFileLayouts ==
    {"OnlyTextSection", "FemtoContainersHeader", "ExtendedHeader",
     "RawObjectFile", "FunctionRelocationMetadata"}
\* VMConfiguration: the fields the selector and the constructors read.
VMConfigurations ==
    [vm_target : TargetVMs, binary_layout : BinaryFileLayouts, suit_slot : Slots,
     use_jit : BOOLEAN, jit_compile : BOOLEAN]

\* initialize_vm(config, allowed_helpers, program_buffer): the match on
\* config.vm_target; new_ok says whether RbpfVm::new returned Ok.
InitializeVm(config, new_ok) ==
    IF config.vm_target = "Rbpf"
    THEN IF new_ok THEN Ok("RbpfVm") ELSE Err("RbpfVm::new")
    ELSE Ok("FemtoContainerVm")


InitSelect ==
    /\ PoolInit
    /\ be = [b \in BackEnds |-> IdleBackEnd]
    /\ jit_slots = [s \in Slots |-> FreeSlot]
    /\ copy_buffer = 0
    /\ jit_runs = 0
    /\ \/ \E c \in VMConfigurations, k \in BOOLEAN :
            fn = [op |-> "initialize_vm", in |-> [config |-> c, new_ok |-> k],
                  out |-> <<>>, done |-> FALSE]
       \/ \E l \in LayoutBytes, s \in Slots :
            fn = [op |-> "vm_main_thread", in |-> RequestMsg(l, s, 0, 0),
                  out |-> <<>>, done |-> FALSE]

CallInitializeVm ==
    /\ fn.op = "initialize_vm"
    /\ ~fn.done
    /\ fn' = [fn EXCEPT !.out = InitializeVm(fn.in.config, fn.in.new_ok),
                        !.done = TRUE]
    /\ UNCHANGED <<be, jit_slots, copy_buffer, jit_runs>>
    /\ UNCHANGED pool

CallWorkerVm ==
    /\ fn.op = "vm_main_thread"
    /\ ~fn.done
    /\ fn' = [fn EXCEPT !.out = WorkerVm(RequestFrom(fn.in)), !.done = TRUE]
    /\ UNCHANGED <<be, jit_slots, copy_buffer, jit_runs>>
    /\ UNCHANGED pool

NextSelect == CallInitializeVm \/ CallWorkerVm

SpecSelect == InitSelect /\ [][NextSelect]_vars

(***************************************************************************)
(* The shell command (mibpf-server/src/shell/bpf_command.rs).  An argument *)
(* is a string; the slot argument is the sequence of its characters, so    *)
(* that parse::<u8> is computed.                                           *)
(***************************************************************************)
Digits == <<"0", "1", "2", "3", "4", "5", "6", "7", "8", "9">>
DigitValue(c) == CHOOSE d \in 0 .. 9 : Digits[d + 1] = c
RECURSIVE ParseDigits(_, _)
\* The loop of parse::<u8> over the characters after the sign, acc being the
\* value read so far: a character that is no digit and a value above 255 end
\* it with an error; any number of leading zeros is read.
ParseDigits(chars, acc) ==
    IF chars = <<>> THEN Ok(acc)
    ELSE IF Head(chars) \notin Range(Digits) THEN Err("InvalidDigit")
    ELSE IF acc * 10 + DigitValue(Head(chars)) > 255 THEN Err("PosOverflow")
    ELSE ParseDigits(Tail(chars), acc * 10 + DigitValue(Head(chars)))
\* str.parse::<u8>(): an optional "+", then one or more digits, at most 255.
ParseU8(chars) ==
    IF chars = <<>> THEN Err("Empty")
    ELSE IF chars \in {<<"+">>, <<"-">>} THEN Err("InvalidDigit")
    ELSE IF Head(chars) = "+" THEN ParseDigits(Tail(chars), 0)
    ELSE ParseDigits(chars, 0)

\* BinaryFileLayout::from_str
LayoutFromStr(name) ==
    IF name \in BinaryFileLayouts THEN Ok(name) ELSE Err(name)
\* binary_layout.into(): the byte of a layout.
LayoutInto(layout) == CHOOSE byte \in LayoutBytes : LayoutFrom(byte) = layout

UsageLine == "usage"
InvalidLayoutLine == "Invalid binary layout"
SentLine == "VM execution request sent successfully"
FailedLine == "Failed to send VM execution request"

\* An unrecognised layout name is answered with the usage line.
HandleCommandRejectsLayout(args, q, id) ==
    LET none == [stdio |-> <<>>, tried |-> <<>>, queue |-> q, panic |-> FALSE]
        usage == IF Len(args) = 0 THEN [none EXCEPT !.panic = TRUE]
                 ELSE [none EXCEPT !.stdio = <<UsageLine>>] IN
    IF Len(args) < 3 THEN usage
    ELSE IF ~ParseU8(args[3]).ok THEN usage
    ELSE IF args[2] \notin {"rBPF", "FemtoContainer"} THEN usage
    ELSE IF Len(args) < 4 THEN [none EXCEPT !.panic = TRUE]
    ELSE IF ~LayoutFromStr(args[4]).ok THEN usage
    ELSE LET parsed == LayoutFromStr(args[4])
             binary_layout == IF parsed.ok THEN parsed.val
                              ELSE "FunctionRelocationMetadata"
             said == IF parsed.ok THEN <<>> ELSE <<InvalidLayoutLine>>
             request == [suit_slot |-> ParseU8(args[3]).val,
                         vm_target |-> IF args[2] = "rBPF" THEN 0 ELSE 1,
                         binary_layout |-> LayoutInto(binary_layout),
                         allowed_helpers |-> <<1, 2, 3>>] IN
         IF TrySendOk(q)
         THEN [stdio |-> Append(said, SentLine), tried |-> <<request>>,
               queue |-> Append(q, Request(id, request)), panic |-> FALSE]
         ELSE [stdio |-> Append(said, FailedLine), tried |-> <<request>>,
               queue |-> q, panic |-> FALSE]

\* handle_command(stdio, args) with the manager's queue q: the lines written
\* to stdio, the messages passed to try_send, the queue afterwards, and
\* whether the handler panicked (args[3] on three arguments, args[0] in the
\* usage line on none).
HandleCommand(args, q, id) ==
    LET none == [stdio |-> <<>>, tried |-> <<>>, queue |-> q, panic |-> FALSE]
        usage == IF Len(args) = 0 THEN [none EXCEPT !.panic = TRUE]
                 ELSE [none EXCEPT !.stdio = <<UsageLine>>] IN
    IF Len(args) < 3 THEN usage
    ELSE IF ~ParseU8(args[3]).ok THEN usage
    ELSE IF args[2] \notin {"rBPF", "FemtoContainer"} THEN usage
    ELSE IF Len(args) < 4 THEN [none EXCEPT !.panic = TRUE]
    ELSE LET parsed == LayoutFromStr(args[4])
             binary_layout == IF parsed.ok THEN parsed.val
                              ELSE "FunctionRelocationMetadata"
             said == IF parsed.ok THEN <<>> ELSE <<InvalidLayoutLine>>
             request == [suit_slot |-> ParseU8(args[3]).val,
                         vm_target |-> IF args[2] = "rBPF" THEN 0 ELSE 1,
                         binary_layout |-> LayoutInto(binary_layout),
                         allowed_helpers |-> <<1, 2, 3>>] IN
         IF TrySendOk(q)
         THEN [stdio |-> Append(said, SentLine), tried |-> <<request>>,
               queue |-> Append(q, Request(id, request)), panic |-> FALSE]
         ELSE [stdio |-> Append(said, FailedLine), tried |-> <<request>>,
               queue |-> q, panic |-> FALSE]

\* The command lines typed at the shell.
TargetArgs == {"rBPF", "FemtoContainer", "Garbage"}
SlotArgs == {<<"2">>, <<"+", "1">>, <<"0", "0", "0", "2">>, <<"2", "5", "6">>,
             <<"+">>, <<"x">>}
LayoutArgs == {"RawObjectFile", "OnlyTextSection", "Garbage"}
CommandLines ==
    {<<"bpf-execute">>}
    \cup {<<"bpf-execute", t, <<"2">>>> : t \in {"rBPF", "Garbage"}}
    \cup {<<"bpf-execute", t, <<"2">>, l>> :
            t \in TargetArgs, l \in LayoutArgs}
    \cup {<<"bpf-execute", "rBPF", s, "RawObjectFile">> : s \in SlotArgs}

\* One command is typed and handled; nothing takes messages off the
\* manager's queue meanwhile.
ShellCommand ==
    /\ sent < MaxRequests
    /\ \E args \in CommandLines :
        LET out == HandleCommand(args, mailbox, sent + 1) IN
        /\ fn' = [op |-> "handle_command", in |-> args, out |-> out,
                  done |-> TRUE]
        /\ mailbox' = out.queue
        /\ sent' = IF out.queue # mailbox THEN sent + 1 ELSE sent
    /\ UNCHANGED <<be, jit_slots, copy_buffer, jit_runs>>
    /\ UNCHANGED <<run, free_workers, mgr, pc, wreq, result, errlog,
                   requester_inbox, stray, rejected, outstanding, recency>>

NextShell == ShellCommand

SpecShell == Init /\ [][NextShell]_vars

(***************************************************************************)
(* From the shell to the worker's VM: the command builds the request       *)
(* (bpf_command.rs), the IPC message carries the four bytes of             *)
(* VMExecutionRequestMsg (requests.rs), the worker rebuilds the            *)
(* VMExecutionRequest from them and constructs the VM (vm_thread.rs).      *)
(***************************************************************************)
\* TargetVM::from(u8)
TargetFrom(byte) == IF byte = 0 THEN "Rbpf" ELSE "FemtoContainer"
\* The VMExecutionRequestMsg that travels: binary_layout, suit_slot,
\* helper_set, helper_indices.  No field of it holds the target.
WireMsg(request, hs, hi) ==
    RequestMsg(request.binary_layout, request.suit_slot, hs, hi)
HelperBytes == {0, 1}

InitSubmit ==
    /\ PoolInit
    /\ be = [b \in BackEnds |-> IdleBackEnd]
    /\ jit_slots = [s \in Slots |-> FreeSlot]
    /\ copy_buffer = 0
    /\ jit_runs = 0
    /\ \E a \in CommandLines, hs \in HelperBytes, hi \in HelperBytes :
        fn = [op |-> "bpf_execute", stage |-> "typed",
              in |-> [args |-> a, helper_set |-> hs, helper_indices |-> hi],
              request |-> <<>>]

\* The shell handles the command line; the message of a request it sent is
\* in the manager's queue.
SubmitCommand ==
    /\ fn.op = "bpf_execute"
    /\ fn.stage = "typed"
    /\ LET out == HandleCommand(fn.in.args, mailbox, sent + 1) IN
        IF out.panic \/ out.queue = mailbox
        THEN /\ fn' = [fn EXCEPT !.stage = "done"]
             /\ UNCHANGED <<mailbox, sent>>
        ELSE /\ fn' = [fn EXCEPT !.stage = "sent", !.request = out.tried]
             /\ mailbox' = Append(mailbox,
                    Request(sent + 1, WireMsg(out.tried[1], fn.in.helper_set,
                                              fn.in.helper_indices)))
             /\ sent' = sent + 1
    /\ UNCHANGED <<be, jit_slots, copy_buffer, jit_runs>>
    /\ UNCHANGED <<run, free_workers, mgr, pc, wreq, result, errlog,
                   requester_inbox, stray, rejected, outstanding, recency>>

\* The command's request on its way: the manager pops a pid and msg_sends,
\* the worker reads the request through the message's pointer, builds the VM
\* of the rebuilt request, executes and notifies.
NextSubmit ==
    \/ SubmitCommand
    \/ ManagerDispatch
    \/ ManagerComplete
    \/ \E w \in Workers : WorkerReceive(w)
    \/ \E w \in Workers : WorkerLoad(w)
    \/ \E w \in Workers : WorkerExecute(w)
    \/ \E w \in Workers : WorkerNotify(w)

SpecSubmit == InitSubmit /\ [][NextSubmit]_vars

(***************************************************************************)
(* Vocabulary of the properties.                                           *)
(***************************************************************************)
IsFree(p) == p \in Range(free_workers)
Pending(p) == Cardinality({i \in DOMAIN mailbox : mailbox[i] = Notification(p)})
Sending(p) == mgr.pc = "send" /\ mgr.pid = p
\* Requests handed to worker w that it has not finished with.
InFlight(w) ==
    (IF Sending(Pid(w)) THEN 1 ELSE 0) + (IF pc[w] # "receive" THEN 1 ELSE 0)
\* This step is the manager starting a msg_send to pid p.
DispatchTo(p) == mgr.pc = "receive" /\ mgr'.pc = "send" /\ mgr'.pid = p
\* This step is the manager taking the notification of pid p off its queue.
CompletionOf(p) ==
    /\ mgr.pc = "receive"
    /\ mailbox # <<>>
    /\ Head(mailbox) = Notification(p)
    /\ mailbox' = Tail(mailbox)

(***************************************************************************)
(* C1: in every reachable state the number of pids in free_workers is N    *)
(* minus the number of requests dispatched to a worker whose completion    *)
(* the manager has not processed; so all 4 are free initially and 4 - k    *)
(* after k dispatches without a completion.                                *)
(***************************************************************************)
RECURSIVE Sum(_, _)
Sum(f, S) ==
    IF S = {} THEN 0
    ELSE LET x == CHOOSE y \in S : TRUE IN f[x] + Sum(f, S \ {x})

C1_FreeCount ==
    Len(free_workers) = NumWorkers - Sum(outstanding, WorkerPids)

\* Four dispatches and no completion processed: nobody is free.
C1_Witness ==
    /\ free_workers = <<>>
    /\ \A p \in WorkerPids : outstanding[p] = 1
    /\ \A w \in Workers : pc[w] # "receive"

(***************************************************************************)
(* C2: every dispatched request gets exactly one completion notification   *)
(* to the manager.  Stated on states: a worker that holds a dispatch the   *)
(* manager has not seen completed, and that is back at the head of its     *)
(* loop, has exactly one notification in the manager's queue; no other     *)
(* worker has any.                                                         *)
(***************************************************************************)
C2_CompletionExactlyOnce ==
    \A w \in Workers :
        IF outstanding[Pid(w)] = 1 /\ InFlight(w) = 0
        THEN Pending(Pid(w)) = 1
        ELSE Pending(Pid(w)) = 0

(***************************************************************************)
(* C3: a worker goes from Free to Busy only when a request is dispatched   *)
(* to it and from Busy to Free only when the manager processes its         *)
(* completion; a request is only ever dispatched to a Free worker, which   *)
(* is Busy afterwards, so no worker has more than one request in flight.   *)
(***************************************************************************)
C3_WorkerStateMachine ==
    /\ [](\A w \in Workers : InFlight(w) <= 1)
    /\ [][\A p \in WorkerPids :
            /\ (IsFree(p) /\ ~IsFree(p)') => DispatchTo(p)
            /\ (~IsFree(p) /\ IsFree(p)') => CompletionOf(p)
            /\ DispatchTo(p) => (IsFree(p) /\ ~IsFree(p)')
            /\ CompletionOf(p) => (~IsFree(p) /\ IsFree(p)')]_vars

\* A worker that was freed by its completion has been dispatched to again.
C3_Witness ==
    /\ Sending(Pid(NumWorkers - 1))
    /\ mgr.msg.id > 1
    /\ ~IsFree(Pid(NumWorkers - 1))
    /\ pc[NumWorkers - 1] = "receive"

(***************************************************************************)
(* C4: a request that arrives while free_workers is empty is answered to   *)
(* its requester with a "no free workers" error, is forwarded to no        *)
(* worker, is not retried and leaves free_workers empty.                   *)
(***************************************************************************)
Queued(r) == \E i \in DOMAIN mailbox :
    mailbox[i].type = VM_EXEC_REQUEST /\ mailbox[i].id = r
Forwarded(r) == mgr.pc = "send" /\ mgr.msg.id = r

C4_RejectAnswersRequester ==
    /\ [](\A r \in rejected :
            /\ r \in requester_inbox
            /\ ~Queued(r)
            /\ ~Forwarded(r))
    /\ [][rejected' # rejected =>
            (free_workers = <<>> /\ free_workers' = <<>> /\ mgr' = mgr)]_vars

(***************************************************************************)
(* C5: a completion notification that names an unknown pid, or a worker    *)
(* with no dispatch outstanding, leaves free_workers as it was.            *)
(***************************************************************************)
C5_StrayCompletionIgnored ==
    [][\A p \in WorkerPids \cup {UnknownPid} :
        (CompletionOf(p) /\ (p \notin WorkerPids \/ outstanding[p] = 0))
            => free_workers' = free_workers]_vars

(***************************************************************************)
(* C6: a worker whose execution ended in an error still delivers its       *)
(* completion notification: when it returns to the head of its loop the    *)
(* notification with its pid is in the manager's queue.  The worker has no *)
(* branch on how the execution ended, so this is stated for every value    *)
(* vm.execute left in result, 0 (nothing written) included.                *)
(***************************************************************************)
C6_FailedWorkerNotifies ==
    [][\A w \in Workers :
        (pc[w] = "notify" /\ result[w] \in RetVals /\ pc'[w] = "receive")
            => Pending(Pid(w))' = Pending(Pid(w)) + 1]_vars

(***************************************************************************)
(* C7: a completion notification reaches the manager only after the worker *)
(* has returned from execute: a worker whose notification is queued, or    *)
(* whose pid is in free_workers, is at the head of its loop and is not     *)
(* loading or executing a program.                                         *)
(***************************************************************************)
C7_FreeWorkerNotExecuting ==
    \A w \in Workers :
        (IsFree(Pid(w)) \/ Pending(Pid(w)) > 0) => pc[w] = "receive"

\* One request was dispatched, executed and its completion processed.
C7_Witness ==
    /\ sent = 1
    /\ mailbox = <<>>
    /\ mgr.pc = "receive"
    /\ errlog = {}
    /\ Len(free_workers) = NumWorkers
    /\ \A w \in Workers : pc[w] = "receive"

(***************************************************************************)
(* C8: workers are allocated last-freed-first: every dispatch goes to the  *)
(* pid that joined the free set most recently among the pids now free, so  *)
(* the dispatch that follows a completion of worker w goes to w.           *)
(***************************************************************************)
C8_LifoAllocation ==
    [][\A p \in WorkerPids :
        DispatchTo(p) => (recency # <<>> /\ p = recency[Len(recency)])]_vars

\* Worker 3 and then worker 2 were freed; the next dispatch went to worker 2.
C8_Witness ==
    /\ Sending(Pid(2))
    /\ mgr.msg.id = 3
    /\ free_workers = <<Pid(0), Pid(1), Pid(3)>>

(***************************************************************************)
(* C9: requests are handled in the order they were sent: requests keep     *)
(* their send order in the manager's queue, and the request the manager    *)
(* takes is older than every request it leaves queued, whatever            *)
(* notifications sit between them.                                         *)
(***************************************************************************)
IsRequest(m) == m.type = VM_EXEC_REQUEST

C9_RequestsFifo ==
    /\ [](\A i, j \in DOMAIN mailbox :
            (i < j /\ IsRequest(mailbox[i]) /\ IsRequest(mailbox[j]))
                => mailbox[i].id < mailbox[j].id)
    /\ [][\A m \in Range(mailbox) :
            (IsRequest(m) /\ m \notin Range(mailbox'))
                => \A n \in Range(mailbox') : IsRequest(n) => m.id < n.id]_vars

\* The manager is forwarding a request taken from ahead of a notification
\* and a later request.
C9_Witness ==
    /\ mgr.pc = "send"
    /\ Len(mailbox) = 2
    /\ mailbox[1].type = VM_COMPLETE_NOTIFICATION
    /\ IsRequest(mailbox[2])
    /\ mailbox[2].id = mgr.msg.id + 1

(***************************************************************************)
(* C10: free_workers changes only in steps of the manager: no step of a    *)
(* worker or of a requester changes it, every change goes with the manager *)
(* taking one message off its queue, and changes it by one pid.            *)
(***************************************************************************)
C10_OnlyManagerWritesFreeWorkers ==
    [][/\ ((\E w \in Workers : WorkerStep(w)) \/ RequesterSend)
            => free_workers' = free_workers
       /\ free_workers' # free_workers
            => /\ mgr.pc = "receive"
               /\ mailbox # <<>>
               /\ mailbox' = Tail(mailbox)
               /\ Len(free_workers') - Len(free_workers) \in {-1, 1}]_vars

\* Two workers have finished; their completions wait to be applied in turn.
C10_Witness ==
    /\ Pending(Pid(3)) = 1
    /\ Pending(Pid(2)) = 1
    /\ free_workers = <<Pid(0), Pid(1)>>

(***************************************************************************)
(* Vocabulary of the JIT properties.                                       *)
(***************************************************************************)
\* Back-end b holds slot s: it acquired s and has not released it, or it is
\* executing the code in s.
Holds(b, s) == be[b].slot = s /\ (be[b].owns \/ be[b].pc = "running")
Holders(s) == {b \in BackEnds : Holds(b, s)}
\* Back-end b is between the return of an initialize that compiled and its
\* own execute.
OwnsCompiled(b) == be[b].owns /\ be[b].pc \in {"verify", "execute", "execute_on_coap_pkt"}
\* This step is a step of thread b.
StepOf(b) == be'[b] # be[b]

(***************************************************************************)
(* C11: at any time no two JIT back-ends hold the same slot, whether they  *)
(* own it after compiling into it or are executing from it.                *)
(***************************************************************************)
C11_SlotExclusive == \A s \in Slots : Cardinality(Holders(s)) <= 1

(***************************************************************************)
(* C12: every acquisition of a JIT slot is followed by its release on      *)
(* every path by which the run of the acquiring back-end ends; so a slot   *)
(* is held only while the back-end that acquired it is still running.      *)
(***************************************************************************)
C12_AcquiredIsReleased ==
    \A s \in Slots :
        jit_slots[s].held => \E b \in BackEnds : be[b].owns /\ be[b].slot = s

(***************************************************************************)
(* C13: while a back-end is between the return of an initialize that       *)
(* compiled into its slot and its own execute, no step of another back-end *)
(* changes that slot: nobody else acquires, overwrites or releases it.     *)
(***************************************************************************)
C13_OwnedUntilExecute ==
    [][\A b \in BackEnds :
         (OwnsCompiled(b) /\ ~StepOf(b))
            => jit_slots'[be[b].slot] = jit_slots[be[b].slot]]_vars

(***************************************************************************)
(* C14: for every JIT configuration, jit_recompile = false included,       *)
(* initialize of a back-end whose layout is not RawObjectFile returns an   *)
(* error, and acquires no slot on the way.                                 *)
(***************************************************************************)
C14_RejectsOtherLayouts ==
    [][\A b \in BackEnds :
         (/\ be[b].pc = "initialise_vm"
          /\ be[b].layout # "RawObjectFile"
          /\ StepOf(b))
            => /\ be'[b].pc = "returned"
               /\ ~be'[b].ret.ok
               /\ jit_slots' = jit_slots]_vars

(***************************************************************************)
(* C15: when initialize needs its slot and the slot is not available, it   *)
(* returns an error to its caller: the thread is not ended and the slot,   *)
(* held by another back-end, is left as it is.                             *)
(***************************************************************************)
C15_FailsFast ==
    [][\A b \in BackEnds :
         (/\ be[b].pc = "initialise_vm"
          /\ be[b].recompile
          /\ be[b].layout = "RawObjectFile"
          /\ ~AcquireOk(jit_slots, be[b].slot)
          /\ StepOf(b))
            => /\ be'[b].pc = "returned"
               /\ ~be'[b].ret.ok
               /\ jit_slots' = jit_slots]_vars

(***************************************************************************)
(* C19: the program-copy buffer is held by at most one thread at a time    *)
(* and only inside the compilation statement of initialize: never by a     *)
(* back-end that is before it, that has left it, that is verifying or      *)
(* executing, whose run has returned or whose thread has ended.  A thread  *)
(* that needs the buffer while another holds it waits.                     *)
(***************************************************************************)
Compiling == {b \in BackEnds : be[b].pc = "compile"}
C19_CopyBufferOnlyWhileCompiling ==
    /\ Cardinality(Compiling) <= 1
    /\ \A b \in Compiling : copy_buffer = b
    /\ \A b \in BackEnds : copy_buffer = b => be[b].pc = "compile"

(***************************************************************************)
(* C16: full_run and full_run_on_coap_pkt invoke resolve_relocations,      *)
(* initialise_vm, verify and execute (execute_on_coap_pkt) in that order,  *)
(* each only if every earlier step succeeded; the first error is what the  *)
(* caller gets, unchanged, and no step runs after it; with no error the    *)
(* caller gets the result of the last step.                                *)
(***************************************************************************)
\* The first step whose answer is an error, 0 if there is none.
FirstError(o) ==
    IF \A k \in DOMAIN o : o[k].ok THEN 0
    ELSE CHOOSE k \in DOMAIN o : ~o[k].ok /\ \A j \in 1 .. (k - 1) : o[j].ok
C16_PipelineOrder ==
    (fn.op \in Entries /\ fn.done) =>
        LET calls == fn.out.calls
            e == FirstError(fn.in)
            last == IF e = 0 THEN Len(Steps(fn.op)) ELSE e IN
        /\ calls = SubSeq(Steps(fn.op), 1, last)
        /\ fn.out.ret = fn.in[last]
\* verify is the first step to fail: execute is not invoked, its error returned.
C16_Witness ==
    /\ fn.op \in Entries
    /\ fn.done
    /\ FirstError(fn.in) = 3
    /\ fn.in[4].ok
    /\ Len(fn.out.calls) = 3
    /\ fn.out.ret = Err("E2")

(***************************************************************************)
(* C17: a program that verification rejects is never executed: execute is  *)
(* called on a worker's VM only after verify was called on it, and a       *)
(* worker that is done with its VM, after a rejection too, delivers its    *)
(* completion notification to the manager.                                 *)
(***************************************************************************)
\* Every call of execute on the VM of worker w comes after a call of verify.
ExecutedOnlyVerified(w) ==
    \A i \in DOMAIN run[w].calls :
        run[w].calls[i] = "execute" =>
            \E j \in 1 .. (i - 1) : run[w].calls[j] = "verify"
C17_RejectedNeverExecuted ==
    /\ [](\A w \in Workers : ExecutedOnlyVerified(w))
    /\ [][\A w \in Workers :
            (pc[w] = "notify" /\ pc'[w] # "notify")
                => mailbox' = Append(mailbox, Notification(Pid(w)))]_vars

(***************************************************************************)
(* C18: in PreFlight mode verify succeeds only if every helper the program *)
(* calls is in the allowed list, and fails if one is not; in None mode the *)
(* helper calls are not checked and the result is that of the structural   *)
(* verification alone, whatever the allowed list.                          *)
(***************************************************************************)
C18_HelperCheckByMode ==
    (fn.op = "verify" /\ fn.done) =>
        LET p == fn.in.program
            structural == p.loads /\ p.wellformed IN
        IF fn.in.helper_access_verification = "PreFlight"
        THEN fn.out.ok <=> (structural /\ p.calls \subseteq fn.in.allowed_helpers)
        ELSE fn.out.ok <=> structural
\* PreFlight, the program calls helper 9 and the allowed list is 1, 2, 3.
C18_Witness ==
    /\ fn.op = "verify"
    /\ fn.done
    /\ fn.in.helper_access_verification = "PreFlight"
    /\ fn.in.program = [loads |-> TRUE, wellformed |-> TRUE, calls |-> {9}]
    /\ fn.in.allowed_helpers = {1, 2, 3}
    /\ ~fn.out.ok

(***************************************************************************)
(* Vocabulary of the relocation properties.                                *)
(***************************************************************************)
TextOf(elf) == SectionBytes(elf.section_headers[2], elf.bytes)
TextAfter == SectionBytes(fn.in.elf.section_headers[2], fn.out.bytes)
\* The symbol of a record exists, and so does the section of the symbol.
Resolvable(elf, r) ==
    /\ Get(elf.syms, r.r_sym) # <<>>
    /\ Get(elf.section_headers, Get(elf.syms, r.r_sym)[1].st_shndx) # <<>>
\* The record points at the opcode of an LDDW pair that lies inside .text.
AtLddw(elf, r) ==
    /\ r.r_offset + 16 <= Len(TextOf(elf))
    /\ TextOf(elf)[r.r_offset + 1] = LDDW_OPCODE
\* A parsed image none of whose records names a symbol without a section or
\* an LDDW cut short by the end of .text, and no two of whose records patch
\* the same instruction.
Regular(elf) ==
    /\ elf.parses
    /\ Get(elf.section_headers, 1) # <<>>
    /\ \A i \in DOMAIN elf.relocs :
        LET r == elf.relocs[i] IN
        /\ Get(elf.syms, r.r_sym) # <<>> => Resolvable(elf, r)
        /\ (r.r_offset < Len(TextOf(elf))
                /\ TextOf(elf)[r.r_offset + 1] = LDDW_OPCODE) => AtLddw(elf, r)
        /\ \A j \in DOMAIN elf.relocs :
            i # j => elf.relocs[j].r_offset # r.r_offset
\* (pre + base + section offset + symbol value) mod 2^32 for record r.
ExpectedImmediate(elf, base, r) ==
    LET pre == SubSeq(TextOf(elf), r.r_offset + 5, r.r_offset + 8)
        symbol == Get(elf.syms, r.r_sym)[1]
        section == Get(elf.section_headers, symbol.st_shndx)[1]
        a == AddLE(pre, Truncate(ZeroExtend(base, 8), 4), 0).sum
        b == AddLE(a, ToLE(section.sh_offset, 4), 0).sum IN
    AddLE(b, ToLE(symbol.st_value, 4), 0).sum

(***************************************************************************)
(* C20: for every relocation record whose offset is within .text and       *)
(* whose instruction there is LDDW, resolve_relocations succeeds and       *)
(* leaves (pre + base + section offset + symbol value) mod 2^32 in the     *)
(* instruction's lower immediate, wrapping around without failing when     *)
(* the sum overflows 32 bits.                                              *)
(***************************************************************************)
C20_ImmediateWraps ==
    (fn.op = "resolve_relocations" /\ fn.done /\ Regular(fn.in.elf)) =>
        /\ fn.out.status = "ok"
        /\ \A i \in DOMAIN fn.in.elf.relocs :
            LET r == fn.in.elf.relocs[i] IN
            (Resolvable(fn.in.elf, r) /\ AtLddw(fn.in.elf, r)) =>
                SubSeq(TextAfter, r.r_offset + 5, r.r_offset + 8)
                    = ExpectedImmediate(fn.in.elf, fn.in.program_addr, r)

\* The section header the resolver takes for .text exists.
HasText(elf) == Get(elf.section_headers, 1) # <<>>
\* Byte i of the image (counted from 1) belongs to the lower immediate of an
\* LDDW whose opcode is at the offset of one of the relocation records, inside
\* .text.
InPatchedImmediate(elf, i) ==
    /\ HasText(elf)
    /\ \E k \in DOMAIN elf.relocs :
        LET offset == elf.relocs[k].r_offset IN
        /\ offset < Len(TextOf(elf))
        /\ TextOf(elf)[offset + 1] = LDDW_OPCODE
        /\ i - elf.section_headers[2].sh_offset \in offset + 5 .. offset + 8

(***************************************************************************)
(* C21: resolve_relocations changes only the lower 32-bit immediate of     *)
(* LDDW instructions located at relocation offsets within .text; every     *)
(* other byte of the program image (the other fields of the patched pair,  *)
(* the other instructions, the other sections) is unchanged, however the   *)
(* call ends.                                                              *)
(***************************************************************************)
C21_OnlyImmediatesChange ==
    (fn.op = "resolve_relocations" /\ fn.done) =>
        /\ Len(fn.out.bytes) = Len(fn.in.elf.bytes)
        /\ \A i \in DOMAIN fn.in.elf.bytes :
            fn.out.bytes[i] # fn.in.elf.bytes[i] =>
                InPatchedImmediate(fn.in.elf, i)
\* Two records were patched in a .text of two LDDW pairs, with a section
\* that starts with the LDDW opcode right after .text.
C21_Witness ==
    /\ fn.op = "resolve_relocations"
    /\ fn.done
    /\ fn.out.status = "ok"
    /\ Len(fn.in.elf.relocs) = 2
    /\ \A k \in {1, 2} :
        LET at == fn.in.elf.section_headers[2].sh_offset
                    + fn.in.elf.relocs[k].r_offset IN
        SubSeq(fn.out.bytes, at + 5, at + 8)
            # SubSeq(fn.in.elf.bytes, at + 5, at + 8)

(***************************************************************************)
(* C22: running resolve_relocations a second time on an already resolved   *)
(* image at the same base address yields the same image as running it      *)
(* once.                                                                   *)
(***************************************************************************)
C22_IdempotentAtSameBase ==
    (fn.op = "resolve_relocations" /\ fn.again # <<>>) =>
        /\ fn.again[1].status = "ok"
        /\ fn.again[1].bytes = fn.out.bytes

\* The image parses and has the section the resolver takes for .text.
WellFormed(elf) == elf.parses /\ HasText(elf)

(***************************************************************************)
(* C23: on a well-formed image with zero relocation records                *)
(* resolve_relocations returns success and leaves every byte of the image  *)
(* unchanged.                                                              *)
(***************************************************************************)
C23_NoRecordsNoChange ==
    (/\ fn.op = "resolve_relocations"
     /\ fn.done
     /\ WellFormed(fn.in.elf)
     /\ fn.in.elf.relocs = <<>>) =>
        /\ fn.out.status = "ok"
        /\ fn.out.bytes = fn.in.elf.bytes
\* The call returned on a well-formed image without records whose .text
\* holds an LDDW.
C23_Witness ==
    /\ fn.op = "resolve_relocations"
    /\ fn.done
    /\ WellFormed(fn.in.elf)
    /\ fn.in.elf.relocs = <<>>
    /\ TextOf(fn.in.elf)[1] = LDDW_OPCODE
    /\ fn.out.status = "ok"

\* The record's offset lies outside .text, or the byte of .text at its offset
\* is not the LDDW opcode.
Skippable(elf, r) ==
    \/ r.r_offset >= Len(TextOf(elf))
    \/ TextOf(elf)[r.r_offset + 1] # LDDW_OPCODE
\* The instruction slot of .text at an offset, as far as .text reaches.
SlotAt(text, offset) ==
    SubSeq(text, offset + 1,
           IF offset + 8 <= Len(text) THEN offset + 8 ELSE Len(text))

(***************************************************************************)
(* C24: a relocation record whose offset lies outside .text, or whose      *)
(* target byte in .text is not the LDDW opcode, is skipped without error:  *)
(* the bytes at that offset are unchanged, all other valid records are     *)
(* still patched, and resolve_relocations returns success.                 *)
(***************************************************************************)
C24_SkipsBadRecords ==
    (fn.op = "resolve_relocations" /\ fn.done /\ WellFormed(fn.in.elf)) =>
        \A k \in DOMAIN fn.in.elf.relocs :
            LET elf == fn.in.elf
                r == elf.relocs[k] IN
            Skippable(elf, r) =>
                /\ fn.out.status = "ok"
                /\ SlotAt(TextAfter, r.r_offset) = SlotAt(TextOf(elf), r.r_offset)
                /\ \A j \in DOMAIN elf.relocs :
                    (/\ j # k
                     /\ elf.relocs[j].r_offset # r.r_offset
                     /\ Resolvable(elf, elf.relocs[j])
                     /\ AtLddw(elf, elf.relocs[j])) =>
                        SubSeq(TextAfter, elf.relocs[j].r_offset + 5,
                               elf.relocs[j].r_offset + 8)
                            = ExpectedImmediate(elf, fn.in.program_addr,
                                                elf.relocs[j])

(***************************************************************************)
(* C25: resolve_relocations returns a fatal error, and leaves the image    *)
(* unmodified, when the ELF cannot be parsed or when the image has no      *)
(* .text section; in every other case it returns success.                  *)
(***************************************************************************)
C25_FatalOnlyWithoutElfOrText ==
    (fn.op = "resolve_relocations" /\ fn.done) =>
        IF WellFormed(fn.in.elf)
        THEN fn.out.status = "ok"
        ELSE fn.out.status = "err" /\ fn.out.bytes = fn.in.elf.bytes

(***************************************************************************)
(* C26: encoding a VMExecutionRequestMsg into an IPC message and decoding  *)
(* it on the receiving worker is the identity on the four byte fields      *)
(* binary_layout, suit_slot, helper_set and helper_indices, for every      *)
(* value of those fields and whatever the sender does after the send: the  *)
(* request a worker reads is the request the manager encoded.              *)
(***************************************************************************)
C26_DecodeIsEncoded ==
    [][\A w \in Workers :
        (pc[w] = "receive" /\ pc'[w] = "load")
            => wreq'[w] = DecodedRead(mgr.msg.body, TRUE)]_vars

\* The back-end the selector of section 4.6 chooses for a configuration.
Chosen(target, use_jit) ==
    IF target = "FemtoContainer" THEN "FemtoContainerVm"
    ELSE IF use_jit THEN "RbpfJIT"
    ELSE "RbpfVm"

(***************************************************************************)
(* C27: the VM selector is a total function of the configuration: target   *)
(* = NativeFallback (FemtoContainer) always yields the native fallback VM  *)
(* whatever use_jit is; otherwise use_jit = true yields the JIT back-end   *)
(* and use_jit = false yields the interpreter.  (A request that reached a  *)
(* worker carries no use_jit flag and is selected as use_jit = false.)     *)
(***************************************************************************)
C27_SelectorByTargetAndJit ==
    /\ (fn.op = "initialize_vm" /\ fn.done) =>
        fn.out = Ok(Chosen(fn.in.config.vm_target, fn.in.config.use_jit))
    /\ (fn.op = "vm_main_thread" /\ fn.done) =>
        fn.out = Ok(Chosen(RequestFrom(fn.in).vm_target, FALSE))

\* Worker w has been handed a request and has not begun to run it.
Handed(w) == pc[w] = "load"
\* Worker w runs the program of its request: it is in vm.execute.
Running(w) == pc[w] = "execute"

ValidCall(args) ==
    /\ Len(args) >= 4
    /\ args[2] \in {"rBPF", "FemtoContainer"}
    /\ ParseU8(args[3]).ok
\* The layout of the request: the one named, or the default.
ExpectedLayout(args) ==
    IF args[4] \in BinaryFileLayouts THEN args[4]
    ELSE "FunctionRelocationMetadata"

(***************************************************************************)
(* C29: the shell command bpf-execute with a valid target and slot but an  *)
(* unrecognised layout name falls back to the default layout and still     *)
(* sends exactly one execution request to the manager; with a recognised   *)
(* layout it sends one request carrying that layout and reports success.   *)
(***************************************************************************)
C29_FallsBackAndSends ==
    [][(fn'.op = "handle_command" /\ ValidCall(fn'.in)) =>
        /\ Len(mailbox') = Len(mailbox) + 1
        /\ mailbox'[Len(mailbox')].body.binary_layout
                = LayoutInto(ExpectedLayout(fn'.in))
        /\ fn'.in[4] \in BinaryFileLayouts =>
                fn'.out.stdio = <<SentLine>>]_vars

(***************************************************************************)
(* C29 as amended: with a valid target and slot the command passes exactly *)
(* one request to try_send, carrying the named layout or, for a name that  *)
(* is not recognised, the default layout; when the manager's queue has     *)
(* room the request is queued and success is reported, and when the queue  *)
(* is full nothing is queued and the failure is reported.                  *)
(***************************************************************************)
C29_FallsBackAndTriesToSend ==
    [][(fn'.op = "handle_command" /\ ValidCall(fn'.in)) =>
        LET out == fn'.out IN
        /\ ~out.panic
        /\ Len(out.tried) = 1
        /\ out.tried[1].binary_layout = LayoutInto(ExpectedLayout(fn'.in))
        /\ out.tried[1].suit_slot = ParseU8(fn'.in[3]).val
        /\ out.tried[1].vm_target = (IF fn'.in[2] = "rBPF" THEN 0 ELSE 1)
        /\ IF Len(mailbox) < QueueSize
           THEN /\ mailbox' = Append(mailbox, Request(sent + 1, out.tried[1]))
                /\ out.stdio[Len(out.stdio)] = SentLine
           ELSE /\ mailbox' = mailbox
                /\ out.stdio[Len(out.stdio)] = FailedLine]_vars
\* "bpf-execute rBPF 2 Garbage" was handled: the request in the queue
\* carries the default layout.
C29_Witness ==
    /\ fn.op = "handle_command"
    /\ fn.in = <<"bpf-execute", "rBPF", <<"2">>, "Garbage">>
    /\ fn.out.stdio = <<InvalidLayoutLine, SentLine>>
    /\ mailbox # <<>>
    /\ mailbox[Len(mailbox)].body
        = [suit_slot |-> 2, vm_target |-> 0, binary_layout |-> 4,
           allowed_helpers |-> <<1, 2, 3>>]

(***************************************************************************)
(* C30: JIT execute obtains the callable only from a slot that is          *)
(* currently held with compiled code: when the slot is free (initialize    *)
(* ran with jit_recompile = false and nothing was compiled, or the slot    *)
(* was already released by an earlier execute) execute fails with an       *)
(* error and invokes no native code.                                       *)
(***************************************************************************)
C30_ExecuteNeedsHeldSlot ==
    [][\A b \in BackEnds :
        (be[b].pc = "execute" /\ be'[b] # be[b]) =>
            IF jit_slots[be[b].slot].held /\ jit_slots[be[b].slot].code # 0
            THEN be'[b].pc = "running"
            ELSE be'[b].pc = "returned" /\ ~be'[b].ret.ok]_vars

\* No record names an LDDW cut short by the end of .text.
NoLddwCutShort(elf) ==
    \A i \in DOMAIN elf.relocs :
        Skippable(elf, elf.relocs[i]) \/ AtLddw(elf, elf.relocs[i])

(***************************************************************************)
(* C31: a relocation record without a resolvable symbol (symbol index not  *)
(* in the symbol table, or the symbol's section index not naming an        *)
(* existing section header) contributes no patch and does not stop the     *)
(* resolver: the remaining records are still processed and the call        *)
(* returns success.  Stated for the calls in which nothing else can fail:  *)
(* no overflow checks, no LDDW cut short.                                  *)
(***************************************************************************)
C31_UnresolvableRecordSkipped ==
    (/\ fn.op = "resolve_relocations"
     /\ fn.done
     /\ WellFormed(fn.in.elf)
     /\ ~fn.in.checks
     /\ NoLddwCutShort(fn.in.elf)) =>
        \A k \in DOMAIN fn.in.elf.relocs :
            LET elf == fn.in.elf
                r == elf.relocs[k] IN
            ~Resolvable(elf, r) =>
                /\ fn.out.status = "ok"
                /\ (\A j \in DOMAIN elf.relocs :
                        j # k => elf.relocs[j].r_offset # r.r_offset) =>
                    SlotAt(TextAfter, r.r_offset) = SlotAt(TextOf(elf), r.r_offset)
                /\ \A j \in DOMAIN elf.relocs :
                    (/\ j # k
                     /\ elf.relocs[j].r_offset # r.r_offset
                     /\ Resolvable(elf, elf.relocs[j])
                     /\ AtLddw(elf, elf.relocs[j])) =>
                        SubSeq(TextAfter, elf.relocs[j].r_offset + 5,
                               elf.relocs[j].r_offset + 8)
                            = ExpectedImmediate(elf, fn.in.program_addr,
                                                elf.relocs[j])

\* Every record whose symbol is in the symbol table names a symbol whose
\* section exists.
NoSymbolWithoutSection(elf) ==
    \A i \in DOMAIN elf.relocs :
        Get(elf.syms, elf.relocs[i].r_sym) # <<>> =>
            Resolvable(elf, elf.relocs[i])
\* The record points at an LDDW opcode in the last 15 bytes of .text.
CutShort(elf, r) ==
    /\ r.r_offset < Len(TextOf(elf))
    /\ TextOf(elf)[r.r_offset + 1] = LDDW_OPCODE
    /\ r.r_offset + 16 > Len(TextOf(elf))

(***************************************************************************)
(* C32: resolve_relocations never reads or writes outside the .text        *)
(* section: a relocation is patched only if the whole 16-byte LDDW pair    *)
(* starting at its offset lies inside .text, and an LDDW opcode found in   *)
(* the last 15 bytes of .text is skipped rather than causing an            *)
(* out-of-bounds access or abort.  Stated for the calls in which nothing   *)
(* else can fail: no overflow checks, no symbol without a section.         *)
(***************************************************************************)
C32_StaysInsideText ==
    (/\ fn.op = "resolve_relocations"
     /\ fn.done
     /\ WellFormed(fn.in.elf)
     /\ ~fn.in.checks
     /\ NoSymbolWithoutSection(fn.in.elf)) =>
        LET elf == fn.in.elf
            first == elf.section_headers[2].sh_offset
            last == first + elf.section_headers[2].sh_size IN
        /\ fn.out.status # "panic"
        /\ \A i \in DOMAIN elf.bytes :
            (i <= first \/ i > last) => fn.out.bytes[i] = elf.bytes[i]
        /\ \A k \in DOMAIN elf.relocs :
            CutShort(elf, elf.relocs[k]) =>
                SlotAt(TextAfter, elf.relocs[k].r_offset)
                    = SlotAt(TextOf(elf), elf.relocs[k].r_offset)

(***************************************************************************)
(* C33: in every reachable state free_workers contains no duplicate        *)
(* identifier and contains only identifiers of the 4 workers spawned at    *)
(* start, for every interleaving of requests and worker completions.       *)
(***************************************************************************)
C33_FreeWorkersDistinct ==
    /\ \A i, j \in DOMAIN free_workers :
        free_workers[i] = free_workers[j] => i = j
    /\ \A i \in DOMAIN free_workers : free_workers[i] \in WorkerPids

\* Two workers were dispatched and completed in the order of their dispatch,
\* so the list was emptied by two and refilled in a new order.
C33_Witness ==
    /\ Len(free_workers) = NumWorkers
    /\ free_workers # [i \in 1 .. NumWorkers |-> Pid(i - 1)]
    /\ \A p \in WorkerPids : outstanding[p] = 0

(***************************************************************************)
(* C34: the request a worker reconstructs from the IPC message has the     *)
(* same target VM as the requester selected: a request submitted for       *)
(* FemtoContainer is executed on the FemtoContainer VM and one submitted   *)
(* for rBPF on the rBPF VM.                                                *)
(***************************************************************************)
C34_TargetSurvivesIpc ==
    (fn.op = "bpf_execute" /\ fn.request # <<>>) =>
        \A w \in Workers :
            run[w].vm # NoRun.vm =>
                run[w].vm = Chosen(TargetFrom(fn.request[1].vm_target), FALSE)

(***************************************************************************)
(* C35: the manager never blocks forever while dispatching: whenever it    *)
(* has popped a worker identifier and sends the request to that worker     *)
(* with the blocking msg_send, the worker eventually receives it.          *)
(***************************************************************************)
C35_DispatchCompletes ==
    \A w \in Workers :
        Sending(Pid(w)) ~> (~Sending(Pid(w)) /\ pc[w] # "receive")
\* The manager is in msg_send to a worker that completed a request before,
\* while another worker executes.
C35_Witness ==
    \E w \in Workers :
        /\ Sending(Pid(w))
        /\ pc[w] = "receive"
        /\ mgr.msg.id > NumWorkers
        /\ \E v \in Workers \ {w} : pc[v] = "execute"

\* Back-end b is inside initialize_vm.
InInitialize(b) == be[b].pc \in {"initialise_vm", "acquired", "compile", "compiled"}

(***************************************************************************)
(* C36: workers running JIT initialize concurrently never deadlock: each   *)
(* acquires its JIT slot first and the program-copy buffer second, holds   *)
(* the buffer only while compiling, and therefore every initialize         *)
(* eventually returns, on the same or on different slots.  Stated on       *)
(* finite runs: a thread that asks for its slot while another thread is   *)
(* inside initialize_vm does not end there (a thread that panicked never   *)
(* returns), and a thread that waits for the copy buffer waits for a       *)
(* thread that is compiling.                                               *)
(***************************************************************************)
C36_InitializeReturns ==
    /\ [][\A b \in BackEnds :
            (/\ be[b].pc = "initialise_vm"
             /\ \E c \in BackEnds \ {b} : InInitialize(c))
                => be'[b].pc # "panicked"]_vars
    /\ [](\A b \in BackEnds :
            (be[b].pc = "acquired" /\ copy_buffer # 0) =>
                be[copy_buffer].pc = "compile")

====
